---- MODULE Spec2Model ----
(***************************************************************************)
(* A model of pytorch_lightning/trainer/supporters.py: the running         *)
(* accumulator TensorRunningAccum, the restarting iterator CycleIterator   *)
(* and the loader combination CombinedLoader / CombinedLoaderIterator.     *)
(*                                                                         *)
(* Python objects are records holding the object's attributes; a method    *)
(* is an operator from the object (and its arguments) to the object after  *)
(* the call, together with what the call returned or raised.               *)
(* An optional value is None (the empty tuple) or Some(x) (a 1-tuple).     *)
(***************************************************************************)
EXTENDS Integers, Sequences, FiniteSets, TLC

VARIABLES
    accum,      \* the TensorRunningAccum object
    appended,   \* history: the values stored by append() since __init__/reset()
    accOp,      \* the last call made on accum: "init", "append" or "reset"
    accRes,     \* what that call returned or raised
    cyc,        \* a stand-alone CycleIterator object
    cycRes,     \* what the last call on cyc returned or raised
    cycCalls,   \* history of cyc: calls made, items returned since iter()
    phase,      \* CombinedLoader: "new", "ready" (constructed) or "failed"
                \* ("idle" while another object is exercised)
    cl,         \* the CombinedLoader object (loaders, mode, dataset)
    iters,      \* the CombinedLoaderIterator objects created by iter(cl), in order
    given,      \* history: the arguments CombinedLoader(...) was called with
    res,        \* what the last call of the loader API returned or raised
    made,       \* history: how many times iter(<a source>) has been called
    coll,       \* a PredictionCollection: its predictions, the last add()
    gen,        \* a generator DataConnector._with_is_last(iterable)
    dc,         \* a DataConnector with its trainer, a model and a datamodule
    red         \* the ranks of a distributed run in reduce_predictions

vars == <<accum, appended, accOp, accRes, cyc, cycRes, cycCalls,
          phase, cl, iters, given, res, made, coll, gen, dc, red>>

accVars == <<accum, appended, accOp, accRes>>
cycVars == <<cyc, cycRes, cycCalls, made>>
loaderVars == <<phase, cl, iters, given, res>>
extVars == <<coll, gen, dc, red>>

\* ---------------------------------------------------------------- bounds

\* largest window_length of an accumulator
MaxWindow == 3
\* most values appended to an accumulator between two resets
MaxAppends == 4
\* most items a source with a length holds
MaxLen == 3
\* most calls made on the stand-alone CycleIterator
MaxCalls == 6
\* most passes started over one CombinedLoader
MaxPasses == 2
\* most next() calls made in one pass
MaxSteps == 5
\* most elements in the list given to one add()
MaxPreds == 2
\* most calls of add() on a PredictionCollection
MaxAdds == 2
\* most calls of attach_data on one trainer and model
MaxAttach == 2
\* largest world size of a distributed run
MaxRanks == 2

\* ---------------------------------------------------------------- helpers

None == <<>>
Some(x) == <<x>>
IsNone(o) == o = <<>>
Get(o) == o[1]

\* how a call ends
Return(v) == [kind |-> "return", value |-> v]
Raise(e) == [kind |-> "raise", exc |-> e]

Range(s) == {s[i] : i \in DOMAIN s}

RECURSIVE SeqSum(_)
SeqSum(s) == IF s = <<>> THEN 0 ELSE Head(s) + SeqSum(Tail(s))

SetMin(S) == CHOOSE x \in S : \A y \in S : x <= y
SetMax(S) == CHOOSE x \in S : \A y \in S : x >= y

\* ------------------------------------------------- TensorRunningAccum

\* The tensors appended are scalar tensors holding an integer.  The buffer
\* is torch.zeros(...): a float32 tensor.  Storing a value in it converts
\* the value to float32, which has a 24 bit significand: an integer up to
\* 2^24 in magnitude is kept, one between 2^24 and 2^25 is rounded to the
\* nearest even integer, a tie going to the even significand.
Float32Exact == 2 ^ 24

to_memory(x) ==
    LET a == IF x < 0 THEN -x ELSE x
        q == a \div 2
        r == IF a <= Float32Exact \/ a % 2 = 0 THEN a
             ELSE IF q % 2 = 0 THEN 2 * q ELSE 2 * (q + 1)
    IN  IF x < 0 THEN -r ELSE r

\* the values a caller appends: small ones, and one float32 cannot hold
Values == {-1, 2, Float32Exact + 1}

\* the window sizes a caller may pass: __init__ takes any integer
Windows == (-MaxWindow)..MaxWindow

TensorRunningAccum_init(window_length) ==
    [window_length |-> window_length,
     memory        |-> None,
     current_idx   |-> 0,
     last_idx      |-> None,
     rotated       |-> FALSE]

\* variant: reset() that keeps the rotated flag
reset_mut(self) ==
    [TensorRunningAccum_init(self.window_length) EXCEPT !.rotated = self.rotated]
reset(self) == TensorRunningAccum_init(self.window_length)

last(self) ==
    IF ~IsNone(self.last_idx) THEN Some(Get(self.memory)[Get(self.last_idx) + 1])
    ELSE None

\* variant: rotated tells whether the cursor is at slot 0
append_unsticky(self, x) ==
    LET mem0 == IF IsNone(self.memory)
                THEN [i \in 1..self.window_length |-> 0]
                ELSE Get(self.memory)
        mem1 == [mem0 EXCEPT ![self.current_idx + 1] = to_memory(x)]
        idx  == (self.current_idx + 1) % self.window_length
    IN  IF IsNone(self.memory) /\ self.window_length < 0
        THEN [self |-> self, res |-> Raise("RuntimeError")]
        ELSE IF self.current_idx >= Len(mem0)
        THEN [self |-> [self EXCEPT !.memory = Some(mem0)], res |-> Raise("IndexError")]
        ELSE [self |-> [self EXCEPT !.memory = Some(mem1),
                                    !.last_idx = Some(self.current_idx),
                                    !.current_idx = idx,
                                    !.rotated = (idx = 0)],
              res |-> Return(None)]
\* append(x): the object after the call, and how the call ended
append(self, x) ==
    LET \* if self.memory is None: self.memory = torch.zeros(window_length, ...)
        mem0 == IF IsNone(self.memory)
                THEN [i \in 1..self.window_length |-> 0]
                ELSE Get(self.memory)
        \* x = x.to(self.memory); self.memory[self.current_idx] = x
        mem1 == [mem0 EXCEPT ![self.current_idx + 1] = to_memory(x)]
        idx  == (self.current_idx + 1) % self.window_length
    IN  IF IsNone(self.memory) /\ self.window_length < 0
        THEN \* torch.zeros of a negative size raises RuntimeError
             [self |-> self, res |-> Raise("RuntimeError")]
        ELSE IF self.current_idx >= Len(mem0)
        THEN \* the buffer has no slot current_idx (a buffer of size 0):
             \* the assignment raises IndexError, the buffer stays
             [self |-> [self EXCEPT !.memory = Some(mem0)], res |-> Raise("IndexError")]
        ELSE [self |-> [self EXCEPT !.memory = Some(mem1),
                                    !.last_idx = Some(self.current_idx),
                                    !.current_idx = idx,
                                    !.rotated = IF idx = 0 THEN TRUE ELSE self.rotated],
              res |-> Return(None)]

\* getattr(tensor, how)() of a non-empty 1-d tensor; the mean is kept as the
\* pair <<sum, count>> (the rounding of the division and of the sum itself
\* is left out)
Aggregate(how, t) ==
    CASE how = "mean" -> <<SeqSum(t), Len(t)>>
      [] how = "max"  -> SetMax(Range(t))
      [] how = "min"  -> SetMin(Range(t))

\* variant: the whole buffer is aggregated, rotated or not
agg_memory_mut(self, how) ==
    IF ~IsNone(self.last_idx)
    THEN Some(Aggregate(how, Get(self.memory)))
    ELSE None
agg_memory(self, how) ==
    IF ~IsNone(self.last_idx)
    THEN IF self.rotated
         THEN Some(Aggregate(how, Get(self.memory)))
         ELSE Some(Aggregate(how, SubSeq(Get(self.memory), 1, self.current_idx)))
    ELSE None

mean(self) == agg_memory(self, "mean")
max(self) == agg_memory(self, "max")
min(self) == agg_memory(self, "min")

\* the other objects, untouched while the accumulator is exercised
CycleIdle == cyc = None /\ cycRes = None /\ cycCalls = None /\ made = 0
LoaderIdle == phase = "idle" /\ cl = None /\ iters = <<>> /\ given = None /\ res = None
AccumIdle == accum = None /\ appended = <<>> /\ accOp = "idle" /\ accRes = None
CollIdle == coll = None
GenIdle == gen = None
ConnIdle == dc = None
ReduceIdle == red = None
ExtIdle == CollIdle /\ GenIdle /\ ConnIdle /\ ReduceIdle

AccumInit ==
    /\ \E w \in 1..MaxWindow : accum = TensorRunningAccum_init(w)
    /\ appended = <<>>
    /\ accOp = "init"
    /\ accRes = Some(Return("TensorRunningAccum"))
    /\ CycleIdle /\ LoaderIdle /\ ExtIdle

\* TensorRunningAccum(w) with any integer, a window size below 1 included
AccumInitAny ==
    /\ \E w \in Windows : accum = TensorRunningAccum_init(w)
    /\ appended = <<>>
    /\ accOp = "init"
    /\ accRes = Some(Return("TensorRunningAccum"))
    /\ CycleIdle /\ LoaderIdle /\ ExtIdle

AccumAppend ==
    /\ Len(appended) < MaxAppends
    /\ \E x \in Values :
        LET r == append(accum, x)
        IN  /\ accum' = r.self
            /\ accRes' = Some(r.res)
            /\ appended' = IF r.res.kind = "return" THEN Append(appended, x)
                           ELSE appended
    /\ accOp' = "append"
    /\ UNCHANGED <<cycVars, loaderVars, extVars>>
AccumReset ==
    /\ accum' = reset(accum)
    /\ appended' = <<>>
    /\ accOp' = "reset"
    /\ accRes' = Some(Return(None))
    /\ UNCHANGED <<cycVars, loaderVars, extVars>>
AccumNext == AccumAppend \/ AccumReset

SpecAccum == AccumInit /\ [][AccumNext]_vars

\* the same calls on an accumulator of any window size
SpecAccumAny == AccumInitAny /\ [][AccumNext]_vars

\* the last n values of a sequence, and a sequence of values as float32 holds them
LastN(s, n) == SubSeq(s, Len(s) - n + 1, Len(s))
Stored(s) == [i \in DOMAIN s |-> to_memory(s[i])]
Hows == {"mean", "max", "min"}
\* the values the aggregates are to cover after the appends in s, window W
Recent(s, W) == IF Len(s) < W THEN s ELSE LastN(s, W)

\* C5, as stated: after N >= 1 appends last() is the value appended last, and
\* mean(), max() and min() are the aggregates of all N appended values when
\* N < W and of the last W appended values when N >= W.
C5_AsStated ==
    Len(appended) >= 1 =>
        /\ last(accum) = Some(appended[Len(appended)])
        /\ \A how \in Hows :
              agg_memory(accum, how)
                = Some(Aggregate(how, Recent(appended, accum.window_length)))

\* C5, amended: the same, of the appended values as converted to the
\* buffer's type (float32) when they were stored.
C5_StoredWindow ==
    Len(appended) >= 1 =>
        /\ last(accum) = Some(to_memory(appended[Len(appended)]))
        /\ \A how \in Hows :
              agg_memory(accum, how)
                = Some(Aggregate(how, Stored(Recent(appended, accum.window_length))))

\* more appends than the window holds, and a value that has left the window
\* was smaller than all that are in it
C5_Witness ==
    /\ accum.window_length >= 2
    /\ Len(appended) > accum.window_length
    /\ accum.rotated
    /\ min(accum) # Some(Aggregate("min", Stored(appended)))
    /\ min(accum) = Some(Aggregate("min", Stored(LastN(appended, accum.window_length))))

\* C6: reset() leaves the accumulator as __init__ with the same window size
\* leaves it: no buffer, cursor 0, no last index, not rotated; and last(),
\* mean(), min() and max() then return None.
C6_ResetIsFresh ==
    [][accOp' = "reset" =>
        /\ accum'.window_length = accum.window_length
        /\ accum'.memory = None
        /\ accum'.current_idx = 0
        /\ accum'.last_idx = None
        /\ accum'.rotated = FALSE
        /\ last(accum') = None
        /\ mean(accum') = None /\ min(accum') = None /\ max(accum') = None
    ]_vars

\* a reset has just emptied the accumulator
C6_Witness == accOp = "reset" /\ appended = <<>> /\ IsNone(accum.memory)

\* ------------------------------------------------------ sources, results

\* float('inf'): above every count the model reaches
Inf == 1000000

\* A source (a DataLoader, an iterable dataset): it is Iterable and neither a
\* Sequence nor a Mapping.  len is the number of batches it holds, which is
\* the length it reports; a source that reports none (len = Inf) never ends.
Loader(id, len) == [kind |-> "loader", id |-> id, len |-> len]

\* batch number idx (from 0) of a source
Batch(loader, idx) == [kind |-> "batch", src |-> loader.id, idx |-> idx]

\* iter(loader): a new iterator over the source, before its first batch
native_iter(loader) == [kind |-> "iterator", loader |-> loader, pos |-> 0]

\* next(it) of such an iterator: the next batch, or StopIteration from the
\* end of the source on
native_next(it) ==
    IF it.pos < it.loader.len
    THEN [it |-> [it EXCEPT !.pos = @ + 1], res |-> Return(Batch(it.loader, it.pos))]
    ELSE [it |-> it, res |-> Raise("StopIteration")]

\* ------------------------------------------------------- CycleIterator

\* CycleIterator(loader, length): length is None or Some(n)
CycleIterator_init(loader, length) ==
    [kind         |-> "CycleIterator",
     length       |-> IF IsNone(length) THEN Inf ELSE Get(length),
     loader       |-> loader,
     _loader_iter |-> None,
     counter      |-> 0]

CycleIterator_len(self) == self.length

\* iter(self); made: the iterators created over the source
CycleIterator_iter(self) ==
    [self |-> [self EXCEPT !.counter = 0,
                           !._loader_iter = Some(native_iter(self.loader))],
     made |-> 1]

\* variant: the bound is tested with > instead of >=
CycleIterator_next_mut(self) ==
    IF self.counter > CycleIterator_len(self)
    THEN [self |-> self, res |-> Raise("StopIteration"), made |-> 0]
    ELSE IF IsNone(self._loader_iter)
    THEN [self |-> [self EXCEPT !.counter = @ + 1], res |-> Raise("TypeError"), made |-> 0]
    ELSE LET first == native_next(Get(self._loader_iter))
             again == native_next(native_iter(self.loader))
         IN  IF first.res.kind = "return"
             THEN [self |-> [self EXCEPT !._loader_iter = Some(first.it), !.counter = @ + 1],
                   res |-> first.res, made |-> 0]
             ELSE [self |-> [self EXCEPT !._loader_iter = Some(again.it), !.counter = @ + 1],
                   res |-> again.res, made |-> 1]
\* variant: an item that comes from a restarted source is counted twice
CycleIterator_next_twice(self) ==
    IF self.counter >= CycleIterator_len(self)
    THEN [self |-> self, res |-> Raise("StopIteration"), made |-> 0]
    ELSE IF IsNone(self._loader_iter)
    THEN [self |-> [self EXCEPT !.counter = @ + 1], res |-> Raise("TypeError"), made |-> 0]
    ELSE LET first == native_next(Get(self._loader_iter))
             again == native_next(native_iter(self.loader))
         IN  IF first.res.kind = "return"
             THEN [self |-> [self EXCEPT !._loader_iter = Some(first.it), !.counter = @ + 1],
                   res |-> first.res, made |-> 0]
             ELSE [self |-> [self EXCEPT !._loader_iter = Some(again.it), !.counter = @ + 2],
                   res |-> again.res, made |-> 1]
\* next(self)
CycleIterator_next(self) ==
    IF self.counter >= CycleIterator_len(self)
    THEN \* raise StopIteration, before the try statement
         [self |-> self, res |-> Raise("StopIteration"), made |-> 0]
    ELSE IF IsNone(self._loader_iter)
    THEN \* next(None) raises TypeError; finally: counter += 1
         [self |-> [self EXCEPT !.counter = @ + 1], res |-> Raise("TypeError"), made |-> 0]
    ELSE LET first == native_next(Get(self._loader_iter))
             \* except StopIteration: a new iterator, and its first batch
             again == native_next(native_iter(self.loader))
         IN  IF first.res.kind = "return"
             THEN [self |-> [self EXCEPT !._loader_iter = Some(first.it), !.counter = @ + 1],
                   res |-> first.res, made |-> 0]
             ELSE \* what the second next() returns or raises leaves the
                  \* method; finally: counter += 1
                  [self |-> [self EXCEPT !._loader_iter = Some(again.it), !.counter = @ + 1],
                   res |-> again.res, made |-> 1]

\* the lengths a CycleIterator is constructed with
Lengths == {None} \cup {Some(n) : n \in 0..MaxLen}

CycleInit ==
    /\ \E n \in 0..MaxLen, length \in Lengths :
          cyc = CycleIterator_init(Loader(1, n), length)
    /\ cycRes = None
    /\ cycCalls = [op |-> "init", calls |-> 0, nexts |-> None, returned |-> 0]
    /\ made = 0
    /\ AccumIdle /\ LoaderIdle /\ ExtIdle

\* iter(cyc)
CycleIter ==
    /\ cycCalls.calls < MaxCalls
    /\ LET r == CycleIterator_iter(cyc)
       IN  /\ cyc' = r.self
           /\ cycRes' = Some(Return("self"))
           /\ made' = made + r.made
    /\ cycCalls' = [op |-> "iter", calls |-> cycCalls.calls + 1,
                    nexts |-> Some(0), returned |-> 0]
    /\ UNCHANGED <<accVars, loaderVars, extVars>>
\* next(cyc)
CycleNext ==
    /\ cycCalls.calls < MaxCalls
    /\ LET r == CycleIterator_next(cyc)
       IN  /\ cyc' = r.self
           /\ cycRes' = Some(r.res)
           /\ made' = made + r.made
           /\ cycCalls' = [op |-> "next", calls |-> cycCalls.calls + 1,
                 nexts |-> IF IsNone(cycCalls.nexts) THEN None
                           ELSE Some(Get(cycCalls.nexts) + 1),
                 returned |-> cycCalls.returned
                                + (IF r.res.kind = "return" THEN 1 ELSE 0)]
    /\ UNCHANGED <<accVars, loaderVars, extVars>>
CycleNextStep == CycleIter \/ CycleNext

SpecCycle == CycleInit /\ [][CycleNextStep]_vars

\* ------------------------------------------------------- containers

\* What CombinedLoader is given: one source, a sequence of sources, or a
\* mapping from keys to sources.  A mapping keeps its keys in insertion order.
Seq_(items) == [kind |-> "seq", items |-> items]
Map_(keys, items) == [kind |-> "map", keys |-> keys, items |-> items]
Number(n) == [kind |-> "number", value |-> n]

\* isinstance(x, ...)
IsMapping(x) == x.kind = "map"
IsSequence(x) == x.kind = "seq"
IsIterable(x) == x.kind \in {"loader", "CycleIterator", "iterator", "ref", "seq", "map"}
IsIterator(x) == x.kind \in {"CycleIterator", "iterator", "ref"}
IsNumber(x) == x.kind = "number"
\* isinstance(x, Iterable) and not isinstance(x, (Sequence, Mapping))
IsIterableLeaf(x) == IsIterable(x) /\ ~IsSequence(x) /\ ~IsMapping(x)

\* the keys of a container, in the order it is traversed
KeysOf(c) == IF IsMapping(c) THEN c.keys ELSE [i \in 1..Len(c.items) |-> i]

\* get_len(loader): the length the source reports, float('inf') when it
\* reports none (len() of a CycleIterator whose __len__ is inf fails)
get_len(loader) ==
    Number(IF loader.kind = "CycleIterator" THEN CycleIterator_len(loader) ELSE loader.len)

\* getattr(loader, 'dataset', None): the dataset of a source, of as many
\* samples as the source has batches (batches of one sample)
dataset_of(loader) == [kind |-> "dataset", id |-> loader.id, len |-> loader.len]

\* function(d), for the functions handed to apply_to_collection
Call(function, d) ==
    CASE function = "get_len" -> get_len(d)
      [] function = "dataset" -> dataset_of(d)

\* isinstance(x, dtype) and not isinstance(x, (Sequence, Mapping)), for the
\* types handed to apply_to_collection
IsInstance(x, dtype) ==
    CASE dtype = "Iterable" -> IsIterableLeaf(x)
      [] dtype = "Dataset, Iterable, None" -> IsIterableLeaf(x) \/ x.kind = "dataset"

\* apply_to_collection(data, dtype, function, wrong_dtype=(Sequence, Mapping)):
\* function of data when data is of the type; of a mapping or sequence the
\* same container, its elements treated the same way, to any depth; any
\* other data as it is.
RECURSIVE apply_to_collection(_, _, _)
apply_to_collection(data, dtype, function) ==
    IF IsInstance(data, dtype) THEN Call(function, data)
    ELSE IF IsMapping(data)
    THEN Map_(data.keys, [k \in DOMAIN data.items |->
                            apply_to_collection(data.items[k], dtype, function)])
    ELSE IF IsSequence(data)
    THEN Seq_([i \in DOMAIN data.items |->
                 apply_to_collection(data.items[i], dtype, function)])
    ELSE data

\* the elements of a sequence, the values of a mapping, in order
ValueSeq(c) == [i \in 1..Len(KeysOf(c)) |-> c.items[KeysOf(c)[i]]]

\* a < b of Python: two numbers compare by value, two lists element by
\* element, the shorter first when one begins the other
RECURSIVE lex_less(_, _)
lex_less(a, b) ==
    IF a = <<>> THEN b # <<>>
    ELSE IF b = <<>> THEN FALSE
    ELSE IF Head(a).value = Head(b).value THEN lex_less(Tail(a), Tail(b))
    ELSE Head(a).value < Head(b).value
py_less(a, b) == IF IsNumber(a) THEN a.value < b.value ELSE lex_less(a.items, b.items)
\* a number and a list do not compare, nor do two dicts: TypeError
py_comparable(a, b) ==
    \/ IsNumber(a) /\ IsNumber(b)
    \/ IsSequence(a) /\ IsSequence(b)

\* min(...) and max(...) of Python over the values left, best being the
\* smallest (largest) so far
RECURSIVE py_best(_, _, _)
py_best(how, best, rest) ==
    IF rest = <<>> THEN Return(best)
    ELSE LET x == Head(rest)
             better == IF how = "min" THEN py_less(x, best) ELSE py_less(best, x)
         IN  IF ~py_comparable(x, best) THEN Raise("TypeError")
             ELSE py_best(how, IF better THEN x ELSE best, Tail(rest))

\* a call that returns a list or a dict v where a number is expected
ReturnObject(v) ==
    [kind |-> "return", type |-> IF IsMapping(v) THEN "dict" ELSE "list", value |-> v]
\* whether a result is a plain value or exception, none of these
IsPlain(r) == DOMAIN r = {"kind", "value"} \/ DOMAIN r = {"kind", "exc"}

\* COMPUTE_FUNCS[mode](values): min for 'min_size', max for 'max_size_cycle'
compute_func(mode, values) ==
    LET r == py_best(IF mode = "min_size" THEN "min" ELSE "max",
                     Head(values), Tail(values))
    IN  IF r.kind = "raise" THEN r
        ELSE IF IsNumber(r.value) THEN Return(r.value.value)
        ELSE ReturnObject(r.value)

Values_(c) == {c.items[k].value : k \in DOMAIN c.items}

\* ----------------------------------------------------- CombinedDataset

COMPUTE_FUNCS == {"min_size", "max_size_cycle"}

CombinedDataset_init(datasets, mode) ==
    IF mode \notin COMPUTE_FUNCS
    THEN [self |-> [datasets |-> datasets, mode |-> "unset"],
          exc |-> Some("MisconfigurationException")]
    ELSE [self |-> [datasets |-> datasets, mode |-> mode], exc |-> None]

\* CombinedDataset._calc_num_data(datasets, mode)
calc_num_data(datasets, mode) ==
    LET all_lengths == apply_to_collection(datasets, "Dataset, Iterable, None", "get_len")
    IN  IF mode \notin COMPUTE_FUNCS THEN Raise("MisconfigurationException")
        ELSE IF IsNumber(all_lengths) THEN Return(all_lengths.value)
        ELSE IF IsMapping(all_lengths) THEN compute_func(mode, ValueSeq(all_lengths))
        ELSE IF IsSequence(all_lengths) THEN compute_func(mode, ValueSeq(all_lengths))
        ELSE \* return length, which was never assigned
             Raise("UnboundLocalError")

\* the properties max_len and min_len of a CombinedDataset
max_len(self) == calc_num_data(self.datasets, "max_size_cycle")
min_len(self) == calc_num_data(self.datasets, "min_size")

\* ------------------------------------------------------ CombinedLoader

SUPPORTED_MODES == {"min_size", "max_size_cycle"}

\* variant: the bound of the wrappers is the smallest length
wrap_min(self) ==
    LET all_lengths == apply_to_collection(self.loaders, "Iterable", "get_len")
        length == IF IsNumber(all_lengths) THEN all_lengths.value
                  ELSE SetMin(Values_(all_lengths))
        wrapped(v) == CycleIterator_init(v, Some(length))
    IN  IF IsMapping(self.loaders)
        THEN [self |-> [self EXCEPT !.loaders = Map_(self.loaders.keys,
                   [k \in DOMAIN self.loaders.items |-> wrapped(self.loaders.items[k])])],
              exc |-> None]
        ELSE IF IsSequence(self.loaders)
        THEN [self |-> [self EXCEPT !.loaders = Seq_(
                   [i \in DOMAIN self.loaders.items |-> wrapped(self.loaders.items[i])])],
              exc |-> None]
        ELSE [self |-> self, exc |-> None]
\* variant: the wrappers are put in a list, whatever the container
wrap_untyped(self) ==
    LET all_lengths == apply_to_collection(self.loaders, "Iterable", "get_len")
        length == IF IsNumber(all_lengths) THEN all_lengths.value
                  ELSE SetMax(Values_(all_lengths))
        wrapped(v) == CycleIterator_init(v, Some(length))
        ks == KeysOf(self.loaders)
    IN  IF IsMapping(self.loaders) \/ IsSequence(self.loaders)
        THEN [self |-> [self EXCEPT !.loaders = Seq_(
                   [i \in DOMAIN ks |-> wrapped(self.loaders.items[ks[i]])])],
              exc |-> None]
        ELSE [self |-> self, exc |-> None]
\* self._wrap_loaders_max_size_cycle()
wrap_loaders_max_size_cycle(self) ==
    LET all_lengths == apply_to_collection(self.loaders, "Iterable", "get_len")
        length == IF IsNumber(all_lengths) THEN all_lengths.value
                  ELSE SetMax(Values_(all_lengths))
        wrapped(v) == CycleIterator_init(v, Some(length))
    IN  IF IsMapping(self.loaders)
        THEN \* type(self.loaders)({k: CycleIterator(v, length) for k, v in items()})
             [self |-> [self EXCEPT !.loaders = Map_(self.loaders.keys,
                   [k \in DOMAIN self.loaders.items |-> wrapped(self.loaders.items[k])])],
              exc |-> None]
        ELSE IF IsSequence(self.loaders)
        THEN [self |-> [self EXCEPT !.loaders = Seq_(
                   [i \in DOMAIN self.loaders.items |-> wrapped(self.loaders.items[i])])],
              exc |-> None]
        ELSE IF IsIterable(self.loaders)
        THEN \* only one dataloader, just keep it the same
             [self |-> self, exc |-> None]
        ELSE [self |-> self, exc |-> Some("ValueError")]

\* variant: the mode is not validated
init_unchecked(loaders, mode) ==
    LET datasets == apply_to_collection(loaders, "Iterable", "dataset")
        s == [loaders |-> loaders,
              dataset |-> Some([datasets |-> datasets, mode |-> mode]),
              mode |-> mode]
    IN  IF mode # "min_size" THEN wrap_loaders_max_size_cycle(s)
        ELSE [self |-> s, exc |-> None]
\* CombinedLoader(loaders, mode): the object as far as __init__ got, and the
\* exception that ended it, if any
CombinedLoader_init(loaders, mode) ==
    LET datasets == apply_to_collection(loaders, "Iterable", "dataset")
        ds == CombinedDataset_init(datasets, mode)
        s1 == [loaders |-> loaders, dataset |-> None, mode |-> "unset"]
        s2 == [s1 EXCEPT !.dataset = Some(ds.self)]
        s3 == [s2 EXCEPT !.mode = mode]
    IN  IF ~IsNone(ds.exc) THEN [self |-> s1, exc |-> ds.exc]
        ELSE IF mode \notin SUPPORTED_MODES
        THEN [self |-> s2, exc |-> Some("MisconfigurationException")]
        ELSE IF mode = "max_size_cycle" THEN wrap_loaders_max_size_cycle(s3)
        ELSE [self |-> s3, exc |-> None]

\* variant: the largest length instead of the smallest
calc_num_batches_max(loaders) ==
    LET all_lengths == apply_to_collection(loaders, "Iterable", "get_len")
    IN  IF IsNumber(all_lengths) THEN Return(all_lengths.value)
        ELSE Return(SetMax(Values_(all_lengths)))
\* CombinedLoader._calc_num_batches(loaders)
calc_num_batches(loaders) ==
    LET all_lengths == apply_to_collection(loaders, "Iterable", "get_len")
    IN  IF IsNumber(all_lengths) THEN Return(all_lengths.value)
        ELSE IF IsMapping(all_lengths) THEN compute_func("min_size", ValueSeq(all_lengths))
        ELSE IF IsSequence(all_lengths) THEN compute_func("min_size", ValueSeq(all_lengths))
        ELSE Raise("TypeError")

\* CombinedLoader.__len__: the value the method returns
CombinedLoader_len(self) == calc_num_batches(self.loaders)

\* ---------------------------------------------- CombinedLoaderIterator

\* iter(x) of a CycleIterator returns the CycleIterator itself: the iterator
\* kept for it is a reference to the object the CombinedLoader holds
Ref(k) == [kind |-> "ref", key |-> k]

\* CombinedLoaderIterator(loaders); loaders is the CombinedLoader's container
CombinedLoaderIterator_init == [_loader_iters |-> None]

\* variant: a CycleIterator is taken as its own iterator without iter() of it
create_loader_iters_bare(loaders) ==
    LET it(k, x) == IF x.kind = "CycleIterator" THEN Ref(k) ELSE native_iter(x)
    IN  IF IsIterableLeaf(loaders)
        THEN [iters |-> native_iter(loaders), loaders |-> loaders, made |-> 1]
        ELSE [iters |-> [loaders EXCEPT !.items =
                            [k \in DOMAIN loaders.items |-> it(k, loaders.items[k])]],
              loaders |-> loaders,
              made |-> Cardinality(DOMAIN loaders.items)]
\* create_loader_iters(loaders): iter() of every source, in place.  iters: the
\* collection of iterators; loaders: the container after the calls
create_loader_iters(loaders) ==
    LET it(k, x) == IF x.kind = "CycleIterator" THEN Ref(k) ELSE native_iter(x)
        after(x) == IF x.kind = "CycleIterator" THEN CycleIterator_iter(x).self ELSE x
    IN  IF IsIterableLeaf(loaders)
        THEN [iters |-> native_iter(loaders), loaders |-> loaders, made |-> 1]
        ELSE [iters |-> [loaders EXCEPT !.items =
                            [k \in DOMAIN loaders.items |-> it(k, loaders.items[k])]],
              loaders |-> [loaders EXCEPT !.items =
                            [k \in DOMAIN loaders.items |-> after(loaders.items[k])]],
              made |-> Cardinality(DOMAIN loaders.items)]

\* next() of the iterators under keys, in order, until one raises; got: the
\* batches so far
RECURSIVE next_each(_, _, _, _, _)
next_each(keys, its, lds, got, mk) ==
    IF keys = <<>> THEN [its |-> its, lds |-> lds, res |-> Return(got), made |-> mk]
    ELSE LET k == Head(keys)
             c == CycleIterator_next(lds[k])
             n == native_next(its[k])
             r == IF its[k].kind = "ref"
                  THEN [its |-> its, lds |-> [lds EXCEPT ![k] = c.self],
                        res |-> c.res, made |-> c.made]
                  ELSE [its |-> [its EXCEPT ![k] = n.it], lds |-> lds,
                        res |-> n.res, made |-> 0]
         IN  IF r.res.kind = "raise"
             THEN [its |-> r.its, lds |-> r.lds, res |-> r.res, made |-> mk + r.made]
             ELSE next_each(Tail(keys), r.its, r.lds,
                            got @@ (k :> r.res.value), mk + r.made)

\* request_next_batch(loader_iters): apply_to_collection(loader_iters, Iterator, next)
request_next_batch(loader_iters, loaders) ==
    IF IsIterator(loader_iters)
    THEN LET n == native_next(loader_iters)
         IN  [iters |-> n.it, loaders |-> loaders, res |-> n.res, made |-> 0]
    ELSE LET r == next_each(KeysOf(loader_iters), loader_iters.items, loaders.items, <<>>, 0)
             v == IF IsMapping(loader_iters) THEN Map_(loader_iters.keys, r.res.value)
                  ELSE Seq_(r.res.value)
         IN  [iters |-> [loader_iters EXCEPT !.items = r.its],
              loaders |-> [loaders EXCEPT !.items = r.lds],
              res |-> IF r.res.kind = "return" THEN Return(v) ELSE r.res,
              made |-> r.made]

\* next(self): the loader_iters property creates the iterators on first use
CombinedLoaderIterator_next(self, loaders) ==
    LET fresh == create_loader_iters(loaders)
        has == ~IsNone(self._loader_iters)
        its == IF has THEN Get(self._loader_iters) ELSE fresh.iters
        lds == IF has THEN loaders ELSE fresh.loaders
        r == request_next_batch(its, lds)
    IN  [self |-> [self EXCEPT !._loader_iters = Some(r.iters)],
         loaders |-> r.loaders,
         res |-> r.res,
         made |-> r.made + (IF has THEN 0 ELSE fresh.made)]

\* ------------------------------------------------- the loader's inputs

SourceLens == (0..MaxLen) \cup {Inf}
KeyOrders == {<<"a">>, <<"b">>, <<"a", "b">>, <<"b", "a">>}
KeyId(k) == IF k = "a" THEN 1 ELSE 2
Modes == {"min_size", "max_size_cycle", "bogus"}

Containers ==
    {Loader(1, n) : n \in SourceLens}
    \cup {Seq_(<<Loader(1, n)>>) : n \in SourceLens}
    \cup {Seq_(<<Loader(1, n), Loader(2, m)>>) : n \in SourceLens, m \in SourceLens}
    \cup {Map_(ko, [k \in Range(ko) |-> Loader(KeyId(k), f[k])]) :
             ko \in KeyOrders, f \in [{"a", "b"} -> SourceLens]}

\* ------------------------------------------------- the loader's actions

Init ==
    /\ phase = "new"
    /\ cl = None
    /\ iters = <<>>
    /\ given = None
    /\ res = None
    /\ AccumIdle /\ CycleIdle /\ ExtIdle

\* CombinedLoader(loaders, mode).  After a failure cl is what __init__ had
\* set when it raised; no object is returned.
Construct ==
    /\ phase = "new"
    /\ \E loaders \in Containers, mode \in Modes :
         LET r == CombinedLoader_init(loaders, mode)
         IN  /\ cl' = r.self
             /\ phase' = IF IsNone(r.exc) THEN "ready" ELSE "failed"
             /\ given' = [loaders |-> loaders, mode |-> mode]
             /\ res' = [op |-> "init", h |-> 0,
                        out |-> IF IsNone(r.exc) THEN Return("CombinedLoader")
                                ELSE Raise(Get(r.exc))]
    /\ UNCHANGED <<iters, made, accVars, cyc, cycRes, cycCalls, extVars>>
\* iter(cl): a new pass; the pass before it is left where it is.  log is
\* history: what each next() of the pass returned or raised
StartPass ==
    /\ phase = "ready"
    /\ Len(iters) < MaxPasses
    /\ iters' = Append(iters, [obj |-> CombinedLoaderIterator_init, log |-> <<>>])
    /\ res' = [op |-> "iter", h |-> Len(iters) + 1, out |-> Return("CombinedLoaderIterator")]
    /\ UNCHANGED <<phase, cl, given, made, accVars, cyc, cycRes, cycCalls, extVars>>
\* next() on pass h
Advance(h) ==
    /\ phase = "ready"
    /\ h \in 1..Len(iters)
    /\ LET r == CombinedLoaderIterator_next(iters[h].obj, cl.loaders)
       IN  /\ Len(iters[h].log) < MaxSteps
           /\ iters' = [iters EXCEPT ![h] = [obj |-> r.self, log |-> Append(@.log, r.res)]]
           /\ cl' = [cl EXCEPT !.loaders = r.loaders]
           /\ res' = [op |-> "next", h |-> h, out |-> r.res]
           /\ made' = made + r.made
    /\ UNCHANGED <<phase, given, accVars, cyc, cycRes, cycCalls, extVars>>
\* next() on the pass started last
NextBatch == Advance(Len(iters))

\* next() on any pass started, the earlier ones too
NextAny == \E h \in 1..Len(iters) : Advance(h)

Next == Construct \/ StartPass \/ NextBatch

Spec == Init /\ [][Next]_vars

\* passes over one loader that are advanced in any order
NextInterleaved == Construct \/ StartPass \/ NextAny

SpecInterleaved == Init /\ [][NextInterleaved]_vars

\* ------------------------------------------- containers of containers

\* what a container may hold under outer key o: a source, a sequence of one
\* or two sources, a mapping of one source
Elements(o) ==
    {Loader(10 * o, n) : n \in SourceLens}
    \cup {Seq_(<<Loader(10 * o + 1, n)>>) : n \in SourceLens}
    \cup {Seq_(<<Loader(10 * o + 1, n), Loader(10 * o + 2, m)>>) :
             n \in SourceLens, m \in SourceLens}
    \cup {Map_(<<"x">>, [k \in {"x"} |-> Loader(10 * o + 1, n)]) : n \in SourceLens}

NestedContainers ==
    {Seq_(<<e1, e2>>) : e1 \in Elements(1), e2 \in Elements(2)}
    \cup {Map_(<<"a", "b">>, [k \in {"a", "b"} |-> IF k = "a" THEN e1 ELSE e2]) :
             e1 \in Elements(1), e2 \in Elements(2)}

\* CombinedLoader(loaders, 'min_size') over a container of containers
ConstructNested ==
    /\ phase = "new"
    /\ \E loaders \in NestedContainers :
         LET r == CombinedLoader_init(loaders, "min_size")
         IN  /\ cl' = r.self
             /\ phase' = IF IsNone(r.exc) THEN "ready" ELSE "failed"
             /\ given' = [loaders |-> loaders, mode |-> "min_size"]
             /\ res' = [op |-> "init", h |-> 0,
                        out |-> IF IsNone(r.exc) THEN Return("CombinedLoader")
                                ELSE Raise(Get(r.exc))]
    /\ UNCHANGED <<iters, made, accVars, cyc, cycRes, cycCalls, extVars>>
\* len(cl), cl.dataset.min_len and cl.dataset.max_len
Measure ==
    /\ phase = "ready"
    /\ res.op = "init"
    /\ res' = [op |-> "len", h |-> 0,
               out |-> CombinedLoader_len(cl),
               min_len |-> min_len(Get(cl.dataset)),
               max_len |-> max_len(Get(cl.dataset))]
    /\ UNCHANGED <<phase, cl, iters, given, made, accVars, cyc, cycRes, cycCalls, extVars>>
NextLength == ConstructNested \/ Measure

SpecLength == Init /\ [][NextLength]_vars

\* ------------------------------------------------ PredictionCollection

\* Python values: a string, a tensor, the numpy array of a tensor, an index
Str(v) == [kind |-> "str", s |-> v]
Tensor(n) == [kind |-> "tensor", t |-> n]
NdArray(n) == [kind |-> "ndarray", a |-> n]
Index(i) == [kind |-> "int", n |-> i]
\* a list (or tuple) of values; a dict, as its (key, value) pairs in order
List(items) == [kind |-> "list", items |-> items]
Dict(entries) == [kind |-> "dict", entries |-> entries]

\* key in d, d[key], len(p)
DictHas(d, k) == \E i \in DOMAIN d.entries : d.entries[i][1] = k
DictGet(d, k) == d.entries[CHOOSE i \in DOMAIN d.entries : d.entries[i][1] = k][2]
PyLen(p) == IF p.kind = "list" THEN Len(p.items) ELSE Len(p.entries)

\* PredictionCollection.convert_to_numpy(value)
convert_to_numpy(value) == NdArray(value.t)

\* apply_to_collection(pred, torch.Tensor, convert_to_numpy) of a dict of values
apply_to_numpy(pred) ==
    Dict([i \in DOMAIN pred.entries |->
            <<pred.entries[i][1],
              IF pred.entries[i][2].kind = "tensor"
              THEN convert_to_numpy(pred.entries[i][2])
              ELSE pred.entries[i][2]>>])

\* the loop of _add_prediction over the predictions left; internal_predictions
\* is a dict of dicts: dataloader index -> key -> prediction
RECURSIVE add_each(_, _, _)
add_each(internal_predictions, dl_idx, rest) ==
    IF rest = <<>> THEN [predictions |-> internal_predictions, exc |-> None]
    ELSE LET pred == Head(rest)
             is_list == pred.kind = "list"
             key == IF is_list THEN pred.items[1]
                    ELSE IF DictHas(pred, Str("path")) THEN DictGet(pred, Str("path"))
                    ELSE DictGet(pred, Str("id"))
             \* pred = {i: v for i, v in enumerate(pred)}
             as_dict == IF is_list
                        THEN Dict([i \in DOMAIN pred.items |-> <<Index(i - 1), pred.items[i]>>])
                        ELSE pred
         IN  IF ~is_list /\ ~DictHas(pred, Str("path")) /\ ~DictHas(pred, Str("id"))
             THEN [predictions |-> internal_predictions,
                   exc |-> Some("MisconfigurationException")]
             ELSE IF key \in DOMAIN internal_predictions[dl_idx]
             THEN [predictions |-> internal_predictions,
                   exc |-> Some("MisconfigurationException")]
             ELSE add_each([internal_predictions EXCEPT
                              ![dl_idx] = (key :> apply_to_numpy(as_dict)) @@ @],
                           dl_idx, Tail(rest))

\* self._add_prediction(predictions); current: model_ref._current_dataloader_idx
add_prediction(self, predictions, current) ==
    LET dl_idx == IF ~IsNone(current) THEN Get(current) ELSE 0
        internal_predictions ==
            IF dl_idx \notin DOMAIN self.predictions
            THEN (dl_idx :> <<>>) @@ self.predictions
            ELSE self.predictions
        r == add_each(internal_predictions, dl_idx, predictions)
    IN  [self |-> [self EXCEPT !.predictions = r.predictions], exc |-> r.exc]

\* self.add(predictions): predictions is None or Some(a list)
PredictionCollection_add(self, predictions, current) ==
    IF IsNone(predictions) THEN [self |-> self, exc |-> None]
    ELSE LET ps == Get(predictions)
         IN  IF ~\A i \in DOMAIN ps : ps[i].kind \in {"list", "dict"}
             THEN [self |-> self, exc |-> Some("MisconfigurationException")]
             ELSE IF ~\A i \in DOMAIN ps : PyLen(ps[i]) > 1
             THEN [self |-> self, exc |-> Some("MisconfigurationException")]
             ELSE add_prediction(self, ps, current)

\* PredictionCollection(trainer), as far as the current stage goes
PredictionCollection_init == [predictions |-> <<>>]

\* the elements handed to add(): lists and dicts that are well formed, a list
\* and a dict of one entry, a dict without 'path' and 'id', and a bare tensor
Elems ==
    {List(<<Str("k1"), Tensor(1)>>),
     List(<<Str("k2"), Tensor(2)>>),
     List(<<Str("k1")>>),
     Dict(<<<<Str("path"), Str("k1")>>, <<Str("pred"), Tensor(3)>>>>),
     Dict(<<<<Str("id"), Str("k2")>>, <<Str("pred"), Tensor(4)>>>>),
     Dict(<<<<Str("name"), Str("k1")>>, <<Str("pred"), Tensor(5)>>>>),
     Dict(<<<<Str("path"), Str("k2")>>>>),
     Tensor(6)}

\* the arguments of add(): None, or a list of up to MaxPreds elements
PredArgs == {None} \cup {Some(ps) : ps \in UNION {[1..n -> Elems] : n \in 0..MaxPreds}}
DlIdxs == {None, Some(0), Some(1)}

CollInit ==
    /\ coll = [obj |-> PredictionCollection_init, calls |-> 0, arg |-> None, res |-> None]
    /\ GenIdle /\ ConnIdle /\ ReduceIdle
    /\ AccumIdle /\ CycleIdle /\ LoaderIdle

\* add(predictions), with the model at some dataloader index
CollAdd ==
    /\ coll.calls < MaxAdds
    /\ \E predictions \in PredArgs, current \in DlIdxs :
         LET r == PredictionCollection_add(coll.obj, predictions, current)
         IN  coll' = [obj |-> r.self,
                      calls |-> coll.calls + 1,
                      arg |-> predictions,
                      res |-> IF IsNone(r.exc) THEN Some(Return(None))
                              ELSE Some(Raise(Get(r.exc)))]
    /\ UNCHANGED <<accVars, cycVars, loaderVars, gen, dc, red>>

SpecColl == CollInit /\ [][CollAdd]_vars

\* ------------------------------------- DataConnector._with_is_last

\* The generator object _with_is_last(iterable) returns.  at: where its
\* body is suspended ("start": not begun; "yielded": at yield last, False;
\* "yielded_last": at yield last, True; "done": finished).  pos: the values
\* the iterator it has handed out; fetches: the calls of next(it) made.
\* generator_stop: whether a StopIteration raised inside a generator body
\* becomes RuntimeError (PEP 479: Python 3.7 and later) or ends the
\* generator (Python 3.6).
with_is_last(iterable, generator_stop) ==
    [iterable |-> iterable, generator_stop |-> generator_stop,
     at |-> "start", pos |-> 0, fetches |-> 0, last |-> None, val |-> None]

\* next(it) inside the body
it_next(g) ==
    [g  |-> [g EXCEPT !.pos = IF g.pos < Len(g.iterable) THEN @ + 1 ELSE @,
                      !.fetches = @ + 1],
     res |-> IF g.pos < Len(g.iterable) THEN Return(g.iterable[g.pos + 1])
             ELSE Raise("StopIteration")]

\* the head of the for statement, last being set: yield last, False when
\* the iterator has a value more, yield last, True when it has none
for_val_in_it(g) ==
    LET n == it_next(g)
    IN  IF n.res.kind = "return"
        THEN [g |-> [n.g EXCEPT !.at = "yielded", !.val = Some(n.res.value)],
              res |-> Return(<<Get(g.last), FALSE>>)]
        ELSE [g |-> [n.g EXCEPT !.at = "yielded_last", !.val = None],
              res |-> Return(<<Get(g.last), TRUE>>)]

\* next(g): the body runs from where it is suspended to its next yield
with_is_last_next(g) ==
    CASE g.at = "start" ->
           \* it = iter(iterable); last = next(it)
           LET n == it_next(g)
           IN  IF n.res.kind = "raise"
               THEN [g |-> [n.g EXCEPT !.at = "done"],
                     res |-> IF g.generator_stop THEN Raise("RuntimeError")
                             ELSE Raise("StopIteration")]
               ELSE for_val_in_it([n.g EXCEPT !.last = Some(n.res.value)])
      [] g.at = "yielded" ->
           \* last = val
           for_val_in_it([g EXCEPT !.last = g.val])
      [] g.at = "yielded_last" ->
           [g |-> [g EXCEPT !.at = "done"], res |-> Raise("StopIteration")]
      [] g.at = "done" ->
           [g |-> g, res |-> Raise("StopIteration")]

\* the values of the iterables given, and the iterables: lists of up to
\* MaxLen values, a value twice among them
BatchValues == {"x", "y"}
Iterables == UNION {[1..n -> BatchValues] : n \in 0..MaxLen}

\* gen.out: history, what each next(g) returned or raised; gen.seen: the
\* calls of next(it) made when it did
GenInit ==
    /\ \E iterable \in Iterables, generator_stop \in BOOLEAN :
         gen = [g |-> with_is_last(iterable, generator_stop), out |-> <<>>, seen |-> <<>>]
    /\ CollIdle /\ ConnIdle /\ ReduceIdle
    /\ AccumIdle /\ CycleIdle /\ LoaderIdle

\* next(g), until the generator has ended and once more
GenNext ==
    /\ Len(gen.out) < Len(gen.g.iterable) + 2
    /\ LET r == with_is_last_next(gen.g)
       IN  gen' = [g |-> r.g, out |-> Append(gen.out, r.res),
                   seen |-> Append(gen.seen, r.g.fetches)]
    /\ UNCHANGED <<accVars, cycVars, loaderVars, coll, dc, red>>

SpecGen == GenInit /\ [][GenNext]_vars

\* ------------------------------------------ DataConnector.attach_data

\* the values of the arguments: a DataLoader, a LightningDataModule (by name)
DataLoader(id) == [kind |-> "DataLoader", id |-> id]
DataModule(name) == [kind |-> "LightningDataModule", name |-> name]
IsDataModule(x) == ~IsNone(x) /\ Get(x).kind = "LightningDataModule"

\* the values of a hook of the model: the model's own method, a
\* _PatchDataLoader, a method of a datamodule
OwnMethod == [kind |-> "own"]
PatchDataLoader(dataloader) == [kind |-> "_PatchDataLoader", dataloader |-> dataloader]
MethodOf(name, method) == [kind |-> "method", of |-> name, method |-> method]

dl_methods == <<"train_dataloader", "val_dataloader", "test_dataloader", "predict_dataloader">>
batch_transfer_hooks ==
    <<"on_before_batch_transfer", "transfer_batch_to_device", "on_after_batch_transfer">>

\* is_overridden(method, datamodule): whether the datamodule's class defines it
is_overridden(method, dm) == method \in dm.overrides

\* self.__enforce_datamodule_dataloader_override(...): the exception, if any
enforce_datamodule_dataloader_override(train_dataloader, val_dataloaders, datamodule) ==
    IF (~IsNone(train_dataloader) \/ ~IsNone(val_dataloaders)) /\ ~IsNone(datamodule)
    THEN Some("MisconfigurationException")
    ELSE None

\* self.attach_dataloaders(model, train_dataloader, val_dataloaders): the
\* world w after it (test_dataloaders and predict_dataloaders are None)
attach_dataloaders(w, train_dataloader, val_dataloaders) ==
    LET h1 == IF ~IsNone(train_dataloader)
              THEN [w.model.hooks EXCEPT
                      !["train_dataloader"] = PatchDataLoader(Get(train_dataloader))]
              ELSE w.model.hooks
        h2 == IF ~IsNone(val_dataloaders)
              THEN [h1 EXCEPT !["val_dataloader"] = PatchDataLoader(Get(val_dataloaders))]
              ELSE h1
    IN  [w EXCEPT !.model.hooks = h2]

\* self.attach_datamodule(model, datamodule)
attach_datamodule(w, datamodule) ==
    LET \* datamodule = datamodule or getattr(model, 'datamodule', None)
        dm == IF ~IsNone(datamodule) THEN Some(Get(datamodule).name)
              ELSE w.model.datamodule
        name == Get(dm)
        obj == w.dms[name]
        hooks == [m \in DOMAIN w.model.hooks |->
                    IF is_overridden(m, obj) THEN MethodOf(name, m) ELSE w.model.hooks[m]]
    IN  IF IsNone(dm) THEN w
        ELSE [w EXCEPT !.model.hooks = hooks,
                       !.trainer.datamodule = Some(name),
                       !.dms[name].trainer = Some("trainer"),
                       !.model.data_pipeline =
                           IF obj.has_data_pipeline THEN Some(name) ELSE @]

\* variant: the dataloaders are attached before the arguments are checked
attach_data_unchecked(w, train_dataloader, val_dataloaders, datamodule) ==
    LET swap == IsDataModule(train_dataloader)
        dm == IF swap THEN train_dataloader ELSE datamodule
        tr == IF swap THEN None ELSE train_dataloader
        exc == enforce_datamodule_dataloader_override(tr, val_dataloaders, dm)
        w1 == attach_dataloaders(w, tr, val_dataloaders)
    IN  IF ~IsNone(exc) THEN [w |-> w1, exc |-> exc]
        ELSE [w |-> attach_datamodule(w1, dm), exc |-> None]
\* self.attach_data(model, train_dataloader, val_dataloaders, datamodule)
attach_data(w, train_dataloader, val_dataloaders, datamodule) ==
    LET \* if a datamodule comes in as the second arg, then fix it for the user
        swap == IsDataModule(train_dataloader)
        dm == IF swap THEN train_dataloader ELSE datamodule
        tr == IF swap THEN None ELSE train_dataloader
        exc == enforce_datamodule_dataloader_override(tr, val_dataloaders, dm)
    IN  IF ~IsNone(exc) THEN [w |-> w, exc |-> exc]
        ELSE [w |-> attach_datamodule(attach_dataloaders(w, tr, val_dataloaders), dm),
              exc |-> None]

\* the datamodules there are, by what their classes override
DataModuleNames == {"A", "B"}
OverrideSets ==
    {{},
     {"train_dataloader"},
     {"train_dataloader", "val_dataloader", "transfer_batch_to_device"},
     Range(dl_methods) \cup Range(batch_transfer_hooks)}

TrainArgs == {None, Some(DataLoader(1))} \cup {Some(DataModule(n)) : n \in DataModuleNames}
ValArgs == {None, Some(DataLoader(2))}
DataModuleArgs == {None} \cup {Some(DataModule(n)) : n \in DataModuleNames}

\* a trainer after on_trainer_init (trainer.datamodule = None), a model with
\* its own hooks, and the datamodules, attached to no trainer
ConnInit ==
    /\ \E ov \in OverrideSets, pipeline \in BOOLEAN, own \in {None, Some("B")} :
         dc = [w |-> [model |-> [hooks |-> [m \in Range(dl_methods) \cup Range(batch_transfer_hooks)
                                              |-> OwnMethod],
                                 datamodule |-> own,
                                 data_pipeline |-> None],
                      trainer |-> [datamodule |-> None],
                      dms |-> [n \in DataModuleNames |->
                                 [trainer |-> None,
                                  overrides |-> IF n = "A" THEN ov ELSE {"val_dataloader"},
                                  has_data_pipeline |-> IF n = "A" THEN pipeline ELSE FALSE]]],
               calls |-> 0, args |-> None, res |-> None]
    /\ CollIdle /\ GenIdle /\ ReduceIdle
    /\ AccumIdle /\ CycleIdle /\ LoaderIdle

\* trainer.fit(model, train_dataloader, val_dataloaders, datamodule), as far
\* as attach_data goes
ConnAttach ==
    /\ dc.calls < MaxAttach
    /\ \E train_dataloader \in TrainArgs, val_dataloaders \in ValArgs,
          datamodule \in DataModuleArgs :
         LET r == attach_data(dc.w, train_dataloader, val_dataloaders, datamodule)
         IN  dc' = [w |-> r.w,
                    calls |-> dc.calls + 1,
                    args |-> Some([train_dataloader |-> train_dataloader,
                                   val_dataloaders |-> val_dataloaders,
                                   datamodule |-> datamodule]),
                    res |-> IF IsNone(r.exc) THEN Some(Return(None))
                            ELSE Some(Raise(Get(r.exc)))]
    /\ UNCHANGED <<accVars, cycVars, loaderVars, coll, gen, red>>

SpecConn == ConnInit /\ [][ConnAttach]_vars

\* ------------------------------ PredictionCollection.reduce_predictions

\* The ranks of a distributed run, each in its own process, calling
\* reduce_predictions(predictions) once.  A dict of predictions is the set
\* of its (key, value) pairs.

\* the directory rank r saves to: gettempdir()/<user>"_<rank>", the quotes
\* being part of the name; and the directory rank 0 reads for rank r:
\* gettempdir()/<user>_<rank>
SaveDir(r) == [name |-> "user\"_rank\"", rank |-> r]
LoadDir(r) == [name |-> "user_rank", rank |-> r]

\* predictions.update(other)
DictUpdate(d, other) ==
    {p \in d : ~\E q \in other : q[1] = p[1]} \cup other

\* makedirs(path): the directory is there afterwards
makedirs(fs, path) == [fs EXCEPT ![path] = [@ EXCEPT !.exists = TRUE]]

\* TempFile(mode='wb', delete=True, dir=path) and torch.save(predictions, fp)
save_temp(fs, path, r, predictions) ==
    [fs EXCEPT ![path] = [@ EXCEPT !.files = @ \cup {[name |-> r, content |-> predictions]}]]

\* leaving the with statement: the temporary file is deleted
delete_temp(fs, path, r) ==
    [fs EXCEPT ![path] = [@ EXCEPT !.files = {f \in @ : f.name # r}]]

\* for rank in range(world_size): for path in os.listdir(dir):
\* predictions.update(torch.load(...)); os.listdir of a directory that is
\* not there raises FileNotFoundError
RECURSIVE load_ranks(_, _, _, _)
load_ranks(fs, rank, world_size, predictions) ==
    IF rank >= world_size THEN Return(predictions)
    ELSE IF ~fs[LoadDir(rank)].exists THEN Raise("FileNotFoundError")
    ELSE LET contents == {f.content : f \in fs[LoadDir(rank)].files}
             \* a directory of this model holds one file at most
             loaded == IF contents = {} THEN predictions
                       ELSE DictUpdate(predictions, CHOOSE c \in contents : TRUE)
         IN  load_ranks(fs, rank + 1, world_size, loaded)

Ranks(n) == 0..(n - 1)
\* what a rank holds: nothing, or one prediction under a key of its own
RankPredictions(r) == {{}, {<<r, "prediction">>}}
\* what is under the directories read, before the run: they are not there,
\* they are empty, or they hold a file left by something else
Environments == {"absent", "empty", "stale"}

ReduceInit ==
    /\ \E n \in 1..MaxRanks, env \in Environments :
       \E preds \in {f \in [Ranks(n) -> UNION {RankPredictions(r) : r \in Ranks(n)}] :
                        \A r \in Ranks(n) : f[r] \in RankPredictions(r)} :
         red = [world_size |-> n,
                predictions |-> preds,
                at |-> [r \in Ranks(n) |-> "start"],
                local |-> [r \in Ranks(n) |-> {}],
                out |-> [r \in Ranks(n) |-> None],
                arrived |-> [tag \in {"reduce_predictions_start", "reduce_predictions_end"}
                               |-> {}],
                loaded_at |-> None,
                fs |-> [d \in {SaveDir(r) : r \in Ranks(n)} \cup {LoadDir(r) : r \in Ranks(n)}
                          |-> IF d.name = "user_rank" /\ env # "absent"
                              THEN [exists |-> TRUE,
                                    files |-> IF env = "stale"
                                              THEN {[name |-> -1, content |-> {<<-1, "stale">>}]}
                                              ELSE {}]
                              ELSE [exists |-> FALSE, files |-> {}]]]
    /\ CollIdle /\ GenIdle /\ ConnIdle
    /\ AccumIdle /\ CycleIdle /\ LoaderIdle

\* makedirs(path); the temporary file is created and the predictions saved
RankSave(r) ==
    /\ red.at[r] = "start"
    /\ red' = [red EXCEPT
                 !.fs = save_temp(makedirs(@, SaveDir(r)), SaveDir(r), r, red.predictions[r]),
                 !.at[r] = "saved"]

\* barrier(tag): the rank arrives; it leaves when every rank has arrived
BarrierArrive(r, from, tag, to) ==
    /\ red.at[r] = from
    /\ red' = [red EXCEPT !.arrived[tag] = @ \cup {r}, !.at[r] = to]
BarrierLeave(r, from, tag, to) ==
    /\ red.at[r] = from
    /\ red.arrived[tag] = Ranks(red.world_size)
    /\ red' = [red EXCEPT !.at[r] = to]

\* predictions = {}; rank 0 loads the files of every rank.  An exception
\* leaves the with statement, which deletes the rank's file, and the call.
RankLoad(r) ==
    /\ red.at[r] = "reduce"
    /\ LET loaded == IF r = 0 THEN load_ranks(red.fs, 0, red.world_size, {})
                     ELSE Return({})
       IN  IF loaded.kind = "raise"
           THEN red' = [red EXCEPT !.fs = delete_temp(@, SaveDir(r), r),
                                   !.out[r] = Some(loaded),
                                   !.at[r] = "raised"]
           ELSE red' = [red EXCEPT !.local[r] = loaded.value,
                                   !.loaded_at = IF r = 0 THEN Some(red.fs) ELSE @,
                                   !.at[r] = "loaded"]

\* the with statement ends: the file is deleted; return predictions
RankReturn(r) ==
    /\ red.at[r] = "leave"
    /\ red' = [red EXCEPT !.fs = delete_temp(@, SaveDir(r), r),
                          !.out[r] = Some(Return(red.local[r])),
                          !.at[r] = "returned"]

RankStep(r) ==
    \/ RankSave(r)
    \/ BarrierArrive(r, "saved", "reduce_predictions_start", "wait_start")
    \/ BarrierLeave(r, "wait_start", "reduce_predictions_start", "reduce")
    \/ RankLoad(r)
    \/ BarrierArrive(r, "loaded", "reduce_predictions_end", "wait_end")
    \/ BarrierLeave(r, "wait_end", "reduce_predictions_end", "leave")
    \/ RankReturn(r)

ReduceNext ==
    /\ \E r \in Ranks(red.world_size) : RankStep(r)
    /\ UNCHANGED <<accVars, cycVars, loaderVars, coll, gen, dc>>

SpecReduce == ReduceInit /\ [][ReduceNext]_vars

\* ------------------------------------------------- the loader's claims

\* the sources CombinedLoader was given, and the lengths they report
GivenSources ==
    IF IsIterableLeaf(given.loaders) THEN {given.loaders}
    ELSE {given.loaders.items[k] : k \in DOMAIN given.loaders.items}
GivenLens == {s.len : s \in GivenSources}
Finite(S) == {n \in S : n # Inf}

\* the aggregated item of step i (from 0) over container c: of every source
\* its batch i, or with cycling its batch i mod its length
ExpectedItem(c, i, cycling) ==
    LET b(src) == Batch(src, IF cycling THEN i % src.len ELSE i)
    IN  IF IsIterableLeaf(c) THEN b(c)
        ELSE IF IsMapping(c)
        THEN Map_(c.keys, [k \in DOMAIN c.items |-> b(c.items[k])])
        ELSE Seq_([k \in DOMAIN c.items |-> b(c.items[k])])

\* C1: in max_size_cycle mode over sources of finite lengths >= 1, the length
\* is L, the largest of them; the first pass returns for step i < L the item
\* made of batch (i mod n) of every source of length n, and its next() number
\* L + 1 raises StopIteration.
C1_MaxSizeCycle ==
    (/\ phase = "ready"
     /\ given.mode = "max_size_cycle"
     /\ \A n \in GivenLens : n >= 1 /\ n # Inf)
    => LET L == SetMax(GivenLens)
       IN  /\ CombinedLoader_len(cl) = Return(L)
           /\ iters # <<>> =>
                \A j \in 1..Len(iters[1].log) :
                    /\ j <= L => iters[1].log[j]
                                   = Return(ExpectedItem(given.loaders, j - 1, TRUE))
                    /\ j = L + 1 => iters[1].log[j] = Raise("StopIteration")

\* a mapping of a source of 2 and a source of 3 batches has been cycled
\* through to the end of the pass
C1_Witness ==
    /\ phase = "ready"
    /\ given.mode = "max_size_cycle"
    /\ IsMapping(given.loaders)
    /\ GivenLens = {2, 3}
    /\ iters # <<>>
    /\ Len(iters[1].log) = 4
    /\ iters[1].log[4] = Raise("StopIteration")

\* C2: in min_size mode over a sequence or mapping of sources of finite
\* lengths, the length is m, the smallest of them; the first pass returns for
\* step i < m the item made of batch i of every source, and its next() number
\* m + 1 raises StopIteration; in whatever order the sources are given.
C2_MinSize ==
    (/\ phase = "ready"
     /\ given.mode = "min_size"
     /\ ~IsIterableLeaf(given.loaders)
     /\ \A n \in GivenLens : n # Inf)
    => LET m == SetMin(GivenLens)
       IN  /\ CombinedLoader_len(cl) = Return(m)
           /\ iters # <<>> =>
                \A j \in 1..Len(iters[1].log) :
                    /\ j <= m => iters[1].log[j]
                                   = Return(ExpectedItem(given.loaders, j - 1, FALSE))
                    /\ j = m + 1 => iters[1].log[j] = Raise("StopIteration")

\* a sequence whose longer source comes first has been iterated to the end
C2_Witness ==
    /\ phase = "ready"
    /\ given.mode = "min_size"
    /\ given.loaders = Seq_(<<Loader(1, 3), Loader(2, 2)>>)
    /\ iters # <<>>
    /\ Len(iters[1].log) = 3
    /\ iters[1].log[3] = Raise("StopIteration")

\* C3: a mode that is neither 'min_size' nor 'max_size_cycle' makes the
\* constructor raise MisconfigurationException: no loader results, the
\* sources are as given (none wrapped in a CycleIterator), and iter() has
\* been called on no source.
C3_BadModeRejected ==
    (phase # "new" /\ given.mode \notin {"min_size", "max_size_cycle"})
    => /\ phase = "failed"
       /\ res = [op |-> "init", h |-> 0, out |-> Raise("MisconfigurationException")]
       /\ cl.loaders = given.loaders
       /\ \A s \in GivenSources : s.kind = "loader"
       /\ iters = <<>>
       /\ made = 0

\* the constructor has been given a mapping of two sources and a bad mode
C3_Witness ==
    /\ phase = "failed"
    /\ given.mode = "bogus"
    /\ IsMapping(given.loaders)
    /\ Len(given.loaders.keys) = 2

\* C4: an item next() returns has the shape of the container given: under
\* the keys of a mapping, a batch of the source given under each key; for a
\* sequence of k sources, the batches of the k sources in their order; for
\* one source, a batch of it.
C4_ItemShape ==
    (phase = "ready" /\ res.op = "next" /\ res.out.kind = "return")
    => LET v == res.out.value
           g == given.loaders
       IN  IF IsMapping(g)
           THEN /\ v.kind = "map"
                /\ v.keys = g.keys
                /\ DOMAIN v.items = DOMAIN g.items
                /\ \A k \in DOMAIN g.items :
                      v.items[k].kind = "batch" /\ v.items[k].src = g.items[k].id
           ELSE IF IsSequence(g)
           THEN /\ v.kind = "seq"
                /\ Len(v.items) = Len(g.items)
                /\ \A k \in DOMAIN g.items :
                      v.items[k].kind = "batch" /\ v.items[k].src = g.items[k].id
           ELSE v.kind = "batch" /\ v.src = g.id

\* an item has been returned for a mapping given 'b' before 'a', in
\* max_size_cycle mode
C4_Witness ==
    /\ phase = "ready"
    /\ given.mode = "max_size_cycle"
    /\ IsMapping(given.loaders)
    /\ given.loaders.keys = <<"b", "a">>
    /\ res.op = "next"
    /\ res.out.kind = "return"

\* C7, as stated: a pass started after another returns what the first pass
\* returned, step by step, beginning with the first batch of every source,
\* returns an item in each of its first len(CombinedLoader) steps and raises
\* StopIteration in the next.
C7_AsStated ==
    (phase = "ready" /\ Len(iters) >= 2)
    => \A h \in 2..Len(iters) : \A j \in 1..Len(iters[h].log) :
          LET n == CombinedLoader_len(cl).value
              e == iters[h].log[j]
          IN  /\ j <= Len(iters[1].log) => e = iters[1].log[j]
              /\ (j = 1 /\ e.kind = "return")
                    => e = Return(ExpectedItem(given.loaders, 0, FALSE))
              /\ j <= n => e.kind = "return"
              /\ j = n + 1 => e = Raise("StopIteration")

\* C10: with a source that reports no length, the length in max_size_cycle
\* mode is unbounded; in min_size mode it is the smallest of the lengths
\* that are reported, and unbounded only when none is.
C10_UnboundedLength ==
    phase = "ready"
    => /\ (given.mode = "max_size_cycle" /\ Inf \in GivenLens)
             => CombinedLoader_len(cl) = Return(Inf)
       /\ (given.mode = "min_size" /\ Finite(GivenLens) # {})
             => CombinedLoader_len(cl) = Return(SetMin(Finite(GivenLens)))
       /\ (given.mode = "min_size" /\ Finite(GivenLens) = {})
             => CombinedLoader_len(cl) = Return(Inf)

\* a loader over a source without a length and a source of two batches, in
\* min_size mode
C10_Witness ==
    /\ phase = "ready"
    /\ given.mode = "min_size"
    /\ given.loaders = Seq_(<<Loader(1, Inf), Loader(2, 2)>>)

\* C8, as stated: over a source without items, the first next() after iter()
\* of a CycleIterator that is to deliver at least one item raises an error
\* other than StopIteration.
C8_AsStated ==
    (/\ cyc.loader.len = 0
     /\ cyc.length >= 1
     /\ cycCalls.op = "next"
     /\ cycCalls.nexts = Some(1))
    => (Get(cycRes).kind = "raise" /\ Get(cycRes).exc # "StopIteration")

\* C9: with an integer bound the counter stays within 0..bound; and a next()
\* called with the counter at the bound raises StopIteration, creates no
\* iterator over the source and leaves the object as it was.
C9_CounterWithinBound ==
    /\ [](cyc.length # Inf => (0 <= cyc.counter /\ cyc.counter <= cyc.length))
    /\ [][(/\ cyc.length # Inf
           /\ cyc.counter >= cyc.length
           /\ cycCalls'.op = "next"
           /\ cycCalls'.calls = cycCalls.calls + 1)
          => (/\ cycRes' = Some(Raise("StopIteration"))
              /\ made' = made
              /\ cyc' = cyc)]_vars

\* the bound was reached by returning items, the source having been restarted,
\* and a further next() has raised StopIteration
C9_Witness ==
    /\ cyc.length # Inf /\ cyc.length >= 2
    /\ cyc.counter = cyc.length
    /\ cycCalls.returned = cyc.length
    /\ made >= 2
    /\ cycCalls.op = "next"
    /\ cycRes = Some(Raise("StopIteration"))

\* ------------------------------------------ the loader's claims, continued

\* C11, as stated: in max_size_cycle mode, whatever the lengths of the sources,
\* every next() among the first L steps of a pass returns an item, L being
\* the length of the loader.
C11_AsStated ==
    (phase = "ready" /\ given.mode = "max_size_cycle")
    => LET L == CombinedLoader_len(cl).value
       IN  \A h \in 1..Len(iters) : \A j \in 1..Len(iters[h].log) :
              j <= L => iters[h].log[j].kind = "return"

\* the number of sources given
LeafCount ==
    IF IsIterableLeaf(given.loaders) THEN 1
    ELSE Cardinality(DOMAIN given.loaders.items)

\* the CycleIterator objects the loader holds
Wrappers ==
    IF IsIterableLeaf(cl.loaders) THEN {}
    ELSE {c \in Range(cl.loaders.items) : c.kind = "CycleIterator"}

\* a step that is iter(cl), and a step that is next() of pass h
IsStartPass == Len(iters') = Len(iters) + 1
IsNextOf(h) ==
    /\ Len(iters') = Len(iters)
    /\ h \in 1..Len(iters)
    /\ Len(iters'[h].log) = Len(iters[h].log) + 1

\* C14, as stated: when iter(cl) has returned, the pass holds an iterator for
\* every source, and iter() of every CycleIterator has set its counter to 0
\* and given it an iterator.
C14_AsStated ==
    (phase = "ready" /\ res.op = "iter")
    => /\ ~IsNone(iters[res.h].obj._loader_iters)
       /\ \A c \in Wrappers : c.counter = 0 /\ ~IsNone(c._loader_iter)

\* C14, amended: iter(cl) creates no iterator and touches no source or
\* CycleIterator; the first next() of the pass creates an iterator for every
\* source, calling iter() of every CycleIterator (counter 0, a new iterator
\* over its source) before it fetches a batch.
C14_CreatedAtFirstNext ==
    [][/\ IsStartPass
          => /\ made' = made
             /\ cl' = cl
             /\ IsNone(iters'[Len(iters')].obj._loader_iters)
       /\ \A h \in 1..Len(iters) :
            (IsNextOf(h) /\ IsNone(iters[h].obj._loader_iters))
            => /\ ~IsNone(iters'[h].obj._loader_iters)
               /\ made' >= made + LeafCount
               /\ \A c \in Wrappers' : c.counter <= 1 /\ ~IsNone(c._loader_iter)
      ]_vars

\* the first next() of a second pass has returned an item, the CycleIterators
\* having counted two items or more in the first pass
C14_Witness ==
    /\ phase = "ready"
    /\ given.mode = "max_size_cycle"
    /\ Wrappers # {}
    /\ Len(iters) = 2
    /\ Len(iters[1].log) >= 2
    /\ iters[1].log[2].kind = "return"
    /\ Len(iters[2].log) = 1
    /\ res.out.kind = "return"
    /\ \A c \in Wrappers : c.counter = 1

\* the iterators pass g fetches from, as they are now: its own iterators,
\* and the CycleIterator objects of the loader it refers to
PassState(g) ==
    LET its == iters[g].obj._loader_iters
        at(c, k) == IF c.items[k].kind = "ref" THEN cl.loaders.items[k] ELSE c.items[k]
    IN  IF IsNone(its) THEN None
        ELSE IF IsIterator(Get(its)) THEN Get(its)
        ELSE [k \in DOMAIN Get(its).items |-> at(Get(its), k)]

\* C15, as stated: with passes advanced in any order, iter(cl) and a next()
\* of one pass leave the iterators of every other pass (their counters and
\* positions, hence the items they yield next) as they were.
C15_AsStated ==
    [][\A g \in 1..Len(iters) :
          /\ IsStartPass => PassState(g)' = PassState(g)
          /\ \A h \in 1..Len(iters) :
                (h # g /\ IsNextOf(h)) => PassState(g)' = PassState(g)
      ]_vars

\* C19, as stated: once a next() of a pass has raised StopIteration, every
\* later next() of that pass raises StopIteration, in both modes and whatever
\* the lengths and the order of the sources.
C19_AsStated ==
    \A h \in 1..Len(iters) : \A i, j \in 1..Len(iters[h].log) :
        (i < j /\ iters[h].log[i] = Raise("StopIteration"))
        => iters[h].log[j] = Raise("StopIteration")

\* the lengths of all the sources in the container given, at any depth
RECURSIVE LeafLens(_)
LeafLens(c) ==
    IF IsIterableLeaf(c) THEN {c.len}
    ELSE UNION {LeafLens(c.items[k]) : k \in DOMAIN c.items}

\* a container that holds a container
IsNested(c) ==
    /\ ~IsIterableLeaf(c)
    /\ \E k \in DOMAIN c.items : ~IsIterableLeaf(c.items[k])

\* C12, as stated: over a container of containers of sources, len() of the
\* loader is the smallest of the lengths of all the sources, and the length
\* of its dataset is the smallest ('min_size') or the largest
\* ('max_size_cycle') of them: one number, never a list or dict of lengths.
C12_AsStated ==
    (phase = "ready" /\ res.op = "len" /\ IsNested(given.loaders))
    => /\ IsPlain(res.out) /\ res.out = Return(SetMin(LeafLens(given.loaders)))
       /\ IsPlain(res.min_len) /\ res.min_len = Return(SetMin(LeafLens(given.loaders)))
       /\ IsPlain(res.max_len) /\ res.max_len = Return(SetMax(LeafLens(given.loaders)))

\* ---------------------------------- the cycle iterator's claims, continued

\* a step of SpecCycle that is a call of next(cyc)
IsCycleNext == cycCalls'.op = "next" /\ cycCalls'.calls = cycCalls.calls + 1

\* C16: a next() of a CycleIterator that returns an item increases the
\* counter by exactly one, whether the item comes from the iterator in use
\* or from the iterator made in that call after the source ran out.
C16_CountsOnce ==
    [][(IsCycleNext /\ Get(cycRes').kind = "return")
       => cyc'.counter = cyc.counter + 1]_vars

\* the last next() restarted a source of two items and returned its first
\* item again, as the third item of the pass
C16_Witness ==
    /\ cyc.loader.len = 2
    /\ cycCalls.op = "next"
    /\ made = 2
    /\ cycRes = Some(Return(Batch(cyc.loader, 0)))
    /\ cycCalls.returned = 3
    /\ cyc.counter = 3

\* C17, as stated: after iter(), no next() of a CycleIterator constructed
\* with length None raises StopIteration, whatever the source.
C17_AsStated ==
    (/\ cyc.length = Inf
     /\ ~IsNone(cycCalls.nexts)
     /\ cycCalls.op = "next")
    => cycRes # Some(Raise("StopIteration"))

\* C18, as stated: the counter is the number of items returned since the
\* last iter(), or since construction; a next() that raises leaves it as it
\* was.
C18_AsStated == cyc.counter = cycCalls.returned

\* ------------------------------------- the accumulator's claims, continued

\* C20: with a window size W >= 1 the cursor is in 0..W-1; last_idx is None
\* exactly when nothing was appended since construction or reset, and is
\* (current_idx - 1) mod W otherwise; rotated is true exactly when at least
\* W values were appended since construction or reset, and a call other
\* than reset() leaves it true.
C20_AccumInvariants ==
    /\ [](accum.window_length >= 1 =>
            LET W == accum.window_length
                N == Len(appended)
            IN  /\ 0 <= accum.current_idx /\ accum.current_idx < W
                /\ IsNone(accum.last_idx) <=> N = 0
                /\ N > 0 => Get(accum.last_idx) = (accum.current_idx - 1) % W
                /\ accum.rotated <=> N >= W)
    /\ [][(accum.window_length >= 1 /\ accum.rotated /\ accOp' # "reset")
          => accum'.rotated]_vars

\* the buffer of three slots has wrapped and the cursor has left slot 0
C20_Witness ==
    /\ accum.window_length = 3
    /\ Len(appended) = 4
    /\ accum.rotated
    /\ accum.current_idx = 1
    /\ accum.last_idx = Some(0)

\* C13, as stated: on an accumulator constructed with a window size W < 1
\* (the constructor having raised nothing) an append() raises a
\* configuration error.
C13_AsStated ==
    (accum.window_length < 1 /\ accOp = "append")
    => accRes = Some(Raise("MisconfigurationException"))

\* ------------------------------------ the prediction collection's claims

\* C22, as stated: an add() that raises leaves the stored predictions as
\* they were before the call.
C22_AsStated ==
    [][(coll'.calls = coll.calls + 1 /\ Get(coll'.res).kind = "raise")
       => coll'.obj.predictions = coll.obj.predictions]_vars

\* ------------------------------------------- the data connector's claims

\* C23, as stated: over an iterable of n >= 0 values the generator yields n
\* pairs and then ends: pair i is value i with True when i = n and False
\* otherwise, and value i + 1 was asked of the iterable before pair i was
\* yielded.
C23_AsStated ==
    LET n == Len(gen.g.iterable)
    IN  \A j \in 1..Len(gen.out) :
          /\ j <= n => /\ gen.out[j] = Return(<<gen.g.iterable[j], j = n>>)
                       /\ gen.seen[j] = j + 1
          /\ j > n => gen.out[j] = Raise("StopIteration")

\* the arguments of the last attach_data: a datamodule is supplied, as
\* datamodule or in the place of train_dataloader, and so is a dataloader,
\* as train_dataloader or as val_dataloaders
Conflicting(args) ==
    /\ ~IsNone(args.datamodule) \/ IsDataModule(args.train_dataloader)
    /\ \/ ~IsNone(args.train_dataloader) /\ ~IsDataModule(args.train_dataloader)
       \/ ~IsNone(args.val_dataloaders)

\* C24: attach_data with a datamodule and a dataloader raises
\* MisconfigurationException and leaves the hooks of the model, the
\* trainer's datamodule and the trainer of every datamodule as they were.
C24_RejectsConflict ==
    [][(dc'.calls = dc.calls + 1 /\ Conflicting(Get(dc'.args)))
       => /\ dc'.res = Some(Raise("MisconfigurationException"))
          /\ dc'.w = dc.w]_vars

\* a datamodule given in the place of train_dataloader together with
\* val_dataloaders has been rejected, on a model that an earlier call had
\* attached a datamodule to
C24_Witness ==
    /\ dc.calls = 2
    /\ IsDataModule(Get(dc.args).train_dataloader)
    /\ ~IsNone(Get(dc.args).val_dataloaders)
    /\ dc.res = Some(Raise("MisconfigurationException"))
    /\ dc.w.trainer.datamodule = Some("A")
    /\ dc.w.model.hooks["train_dataloader"] = MethodOf("A", "train_dataloader")

\* ------------------------------------- the distributed reduction's claims

\* the predictions of all the ranks together
AllPredictions == UNION {red.predictions[r] : r \in Ranks(red.world_size)}

\* C21, as stated: when rank 0 loaded, every rank had saved its file and no
\* rank had deleted it; a rank that has left reduce_predictions has returned:
\* rank 0 the predictions of all the ranks together, every other rank an
\* empty dict.
C21_AsStated ==
    /\ ~IsNone(red.loaded_at)
          => \A r \in Ranks(red.world_size) :
                [name |-> r, content |-> red.predictions[r]]
                    \in Get(red.loaded_at)[SaveDir(r)].files
    /\ \A r \in Ranks(red.world_size) :
          ~IsNone(red.out[r])
          => red.out[r] = Some(Return(IF r = 0 THEN AllPredictions ELSE {}))

====
